---------------------------- MODULE Spec2Model ----------------------------
(* A model of the CPCD evaluation scripts: metrics.py (the retrieval      *)
(* metrics and compute_metrics) and eval.py (the running averages, the    *)
(* per-turn scorer compute_metrics_per_turn and the aggregator            *)
(* score_dataset).  Python floats are modelled as exact rationals.        *)
EXTENDS Integers, Sequences, FiniteSets, TLC

VARIABLES
  \* ---- _AveragedValue driven on its own (SpecAvg)
  av,               \* the accumulator: [value, count]
  fed,              \* the values passed to update so far
  \* ---- one call of metrics.compute_metrics (SpecCM)
  cm_pc,            \* "validate" | "eval" | "returned" | "raised" | "idle"
  cm_preds, cm_gold, cm_k_values, cm_metrics,   \* the arguments
  cm_i, cm_j,       \* position of the for-loops over metrics and k_values
  metric_vals,      \* the dict being built
  n_evaluated,      \* number of metric functions called so far
  cm_error,         \* the exception raised, "" if none
  \* ---- one call of eval.score_dataset (Spec)
  pc,               \* "dialogs" | "turns" | "aggregate" | "done" | "error" | "idle"
  k_values,         \* the k_values argument
  gold,             \* gold[dialog_id] of the dialog being scored
  seed_tracks,      \* the seed batches of the dialog consumed by zip so far
  turn_preds,       \* the prediction list of the turn last taken from zip
  prev_seed_tracks, \* the set local to compute_metrics_per_turn
  filtered_preds, filtered_gold,  \* locals of the turn last processed
  called,           \* whether that turn called metrics.compute_metrics
  turn_metrics,     \* per turn processed: whether skipped, and the turn_metrics dict
  ret,              \* the defaultdict local to compute_metrics_per_turn
  agg_metrics,      \* the defaultdict local to score_dataset
  dialog_log,       \* dialog_metrics of every dialog scored so far
  reported_metrics, \* the dict score_dataset returns
  error             \* the exception that aborted the run, "" if none

avVars == <<av, fed>>
cmVars == <<cm_pc, cm_preds, cm_gold, cm_k_values, cm_metrics, cm_i, cm_j,
            metric_vals, n_evaluated, cm_error>>
sdVars == <<pc, k_values, gold, seed_tracks, turn_preds, prev_seed_tracks,
            filtered_preds, filtered_gold, called, turn_metrics, ret,
            agg_metrics, dialog_log, reported_metrics, error>>
vars == <<avVars, cmVars, sdVars>>

-----------------------------------------------------------------------------
(* Bounds of the model.                                                    *)
MaxPredLen == 3      \* longest preds of a compute_metrics call
MaxGoldLen == 2      \* longest gold of a compute_metrics call
MaxDialogTurns == 2  \* most turns zip yields for one dialog
MaxDialogs == 2      \* most dialogs in preds
MaxK == 2            \* largest cutoff
MaxKLen == 2         \* longest k_values
MaxFed == 3          \* most updates of one _AveragedValue
MaxFedValue == 6     \* largest value fed to an _AveragedValue

Items == {"A", "B", "C"}

RECURSIVE SeqsUpTo(_, _)
SeqsUpTo(S, n) ==
  IF n = 0 THEN {<<>>}
  ELSE LET shorter == SeqsUpTo(S, n - 1)
       IN  shorter \cup {Append(s, x) : s \in {q \in shorter : Len(q) = n - 1}, x \in S}

Range(s) == {s[i] : i \in 1..Len(s)}

-----------------------------------------------------------------------------
(* Exact rationals <<numerator, denominator>>, denominator > 0, in lowest  *)
(* terms: the values of Python's float arithmetic without rounding.        *)
Abs(n) == IF n < 0 THEN 0 - n ELSE n

RECURSIVE GCD(_, _)
GCD(a, b) == IF b = 0 THEN a ELSE GCD(b, a % b)

Rat(n, d) ==
  LET s == IF d < 0 THEN 0 - 1 ELSE 1
      g == GCD(Abs(n), Abs(d))
  IN  <<(s * n) \div g, (s * d) \div g>>

RInt(n) == <<n, 1>>
RAdd(a, b) == Rat(a[1] * b[2] + b[1] * a[2], a[2] * b[2])
RSub(a, b) == Rat(a[1] * b[2] - b[1] * a[2], a[2] * b[2])
RDivInt(a, n) == Rat(a[1], a[2] * n)
RLe(a, b) == a[1] * b[2] <= b[1] * a[2]

RECURSIVE RSum(_)
RSum(s) == IF s = <<>> THEN RInt(0) ELSE RAdd(s[1], RSum(Tail(s)))

-----------------------------------------------------------------------------
(* metrics.py                                                              *)

\* preds[:k] of Python: the first k items, all but the last -k when k < 0.
Slice(preds, k) ==
  LET n == IF k >= 0 THEN (IF k < Len(preds) THEN k ELSE Len(preds))
           ELSE (IF Len(preds) + k > 0 THEN Len(preds) + k ELSE 0)
  IN  SubSeq(preds, 1, n)

\* What a metric function does: return a number or raise.
Returns(r) == [exc |-> "", val |-> r]
Raises(e) == [exc |-> e, val |-> RInt(0)]

get_hit(g, preds, k) ==
  LET top == Slice(preds, k)
  IN  Returns(IF Cardinality(Range(g) \cap Range(top)) > 0 THEN RInt(1) ELSE RInt(0))

get_reciprocal_rank(g, preds, k) ==
  LET top == Slice(preds, k)
      found == {i \in 1..Len(top) : top[i] \in Range(g)}
  IN  IF found = {} THEN Returns(RInt(0))
      ELSE Returns(Rat(1, CHOOSE i \in found : \A j \in found : i <= j))

get_precision(g, preds, k) ==
  LET top == Slice(preds, k)
      num_hit == Cardinality(Range(g) \cap Range(top))
  IN  IF Len(top) = 0 THEN Raises("ZeroDivisionError")
      ELSE Returns(Rat(num_hit, Len(top)))

get_recall(g, preds, k) ==
  LET top == Slice(preds, k)
      num_hit == Cardinality(Range(g) \cap Range(top))
  IN  IF Len(g) = 0 THEN Raises("ZeroDivisionError")
      ELSE Returns(Rat(num_hit, Len(g)))

\* total_precision after the first i items of the truncated list.
RECURSIVE TotalPrecision(_, _, _)
TotalPrecision(g, top, i) ==
  IF i = 0 THEN RInt(0)
  ELSE LET num_hit == Cardinality({j \in 1..i : top[j] \in Range(g)})
       IN  IF top[i] \in Range(g)
           THEN RAdd(TotalPrecision(g, top, i - 1), Rat(num_hit, i))
           ELSE TotalPrecision(g, top, i - 1)

\* Mutant: the total precision is returned without the division by
\* min(len(gold), len(preds)).
get_average_precision_unnormalised(g, preds, k) ==
  LET top == Slice(preds, k)
      m == IF Len(g) < Len(top) THEN Len(g) ELSE Len(top)
  IN  IF m = 0 THEN Raises("ZeroDivisionError")
      ELSE Returns(TotalPrecision(g, top, Len(top)))

get_average_precision(g, preds, k) ==
  LET top == Slice(preds, k)
      m == IF Len(g) < Len(top) THEN Len(g) ELSE Len(top)
  IN  IF m = 0 THEN Raises("ZeroDivisionError")
      ELSE Returns(RDivInt(TotalPrecision(g, top, Len(top)), m))

_has_duplicates(values) == Len(values) > Cardinality(Range(values))

_STANDARD_METRIC_MAP == {"hit", "map", "recall", "precision", "mrr"}
STANDARD_METRICS == <<"hit", "map", "mrr", "precision", "recall">>

\* _STANDARD_METRIC_MAP[metric](gold=gold, preds=preds, k=k)
metric_fn(metric, g, preds, k) ==
  CASE metric = "hit" -> get_hit(g, preds, k)
    [] metric = "map" -> get_average_precision(g, preds, k)
    [] metric = "recall" -> get_recall(g, preds, k)
    [] metric = "precision" -> get_precision(g, preds, k)
    [] metric = "mrr" -> get_reciprocal_rank(g, preds, k)

\* f"{metric}@{k}"
MetricKey(metric, k) == metric \o "@" \o ToString(k)

\* The keys "<metric>@<k>" of the cross product metrics x ks.
CrossKeys(metrics, ks) ==
  {MetricKey(metrics[i], ks[j]) : i \in 1..Len(metrics), j \in 1..Len(ks)}

SeqMax(s) == CHOOSE x \in Range(s) : \A y \in Range(s) : y <= x

\* Mutant: the two duplicate checks are missing.
Validate_no_duplicate_check(preds, g, ks, metrics) ==
  IF \E i \in 1..Len(metrics) : metrics[i] \notin _STANDARD_METRIC_MAP
  THEN "ValueError: Couldn't find implementation for some metrics"
  ELSE IF Len(ks) = 0 THEN "ValueError: max() arg is an empty sequence"
  ELSE IF SeqMax(ks) > Len(preds) THEN "ValueError: k is larger than the number of retrieved preds"
  ELSE ""

\* Mutant: k is compared with len(preds) by min() instead of max().
Validate_min_k(preds, g, ks, metrics) ==
  IF _has_duplicates(preds) THEN "ValueError: Predictions should be unique"
  ELSE IF _has_duplicates(g) THEN "ValueError: Gold item list should be unique"
  ELSE IF \E i \in 1..Len(metrics) : metrics[i] \notin _STANDARD_METRIC_MAP
       THEN "ValueError: Couldn't find implementation for some metrics"
  ELSE IF Len(ks) = 0 THEN "ValueError: min() arg is an empty sequence"
  ELSE IF (CHOOSE x \in Range(ks) : \A y \in Range(ks) : x <= y) > Len(preds)
       THEN "ValueError: k is larger than the number of retrieved preds"
  ELSE ""

\* The four checks compute_metrics opens with, in their order: the message
\* of the ValueError raised, "" when none is.  max() of an empty k_values
\* raises a ValueError of its own.
Validate(preds, g, ks, metrics) ==
  IF _has_duplicates(preds) THEN "ValueError: Predictions should be unique"
  ELSE IF _has_duplicates(g) THEN "ValueError: Gold item list should be unique"
  ELSE IF \E i \in 1..Len(metrics) : metrics[i] \notin _STANDARD_METRIC_MAP
       THEN "ValueError: Couldn't find implementation for some metrics"
  ELSE IF Len(ks) = 0 THEN "ValueError: max() arg is an empty sequence"
  ELSE IF SeqMax(ks) > Len(preds) THEN "ValueError: k is larger than the number of retrieved preds"
  ELSE ""

\* compute_metrics as one call: the exception it raises ("" if none) and
\* the dict it returns.
compute_metrics(preds, g, ks, metrics) ==
  LET verr == Validate(preds, g, ks, metrics)
      pairs == {<<metrics[i], ks[j]>> : i \in 1..Len(metrics), j \in 1..Len(ks)}
      keys == {MetricKey(p[1], p[2]) : p \in pairs}
      pairOf(key) == CHOOSE p \in pairs : MetricKey(p[1], p[2]) = key
  IN  IF verr # "" THEN [exc |-> verr, vals |-> <<>>]
      ELSE IF \E p \in pairs : metric_fn(p[1], g, preds, p[2]).exc # ""
           THEN [exc |-> "ZeroDivisionError", vals |-> <<>>]
      ELSE [exc |-> "",
            vals |-> [key \in keys |->
                        metric_fn(pairOf(key)[1], g, preds, pairOf(key)[2]).val]]

-----------------------------------------------------------------------------
(* eval.py: _AveragedValue                                                 *)

_AveragedValue == [value |-> RInt(0), count |-> 0]

\* Mutant: the old mean is not subtracted from the new value.
_AveragedValue_update_no_subtract(self, value) ==
  LET count == self.count + 1
  IN  [value |-> RAdd(self.value, RDivInt(value, count)), count |-> count]

_AveragedValue_update(self, value) ==
  LET count == self.count + 1
  IN  [value |-> RAdd(self.value, RDivInt(RSub(value, self.value), count)),
       count |-> count]

-----------------------------------------------------------------------------
(* The variables of a part of the model that a specification leaves out.   *)
AvIdle == av = _AveragedValue /\ fed = <<>>

CMIdle ==
  /\ cm_pc = "idle" /\ cm_preds = <<>> /\ cm_gold = <<>> /\ cm_k_values = <<>>
  /\ cm_metrics = <<>> /\ cm_i = 0 /\ cm_j = 0 /\ metric_vals = <<>>
  /\ n_evaluated = 0 /\ cm_error = ""

SDIdle ==
  /\ pc = "idle" /\ k_values = <<>> /\ gold = <<>> /\ seed_tracks = <<>>
  /\ turn_preds = <<>> /\ prev_seed_tracks = {} /\ filtered_preds = <<>>
  /\ filtered_gold = <<>> /\ called = FALSE /\ turn_metrics = <<>> /\ ret = <<>>
  /\ agg_metrics = <<>> /\ dialog_log = <<>> /\ reported_metrics = <<>>
  /\ error = ""

-----------------------------------------------------------------------------
(* SpecAvg: one _AveragedValue fed a sequence of values.                   *)

AvInit == AvIdle /\ CMIdle /\ SDIdle

AvUpdate ==
  /\ Len(fed) < MaxFed
  /\ \E value \in 0..MaxFedValue :
       /\ av' = _AveragedValue_update(av, RInt(value))
       /\ fed' = Append(fed, value)
  /\ UNCHANGED <<cmVars, sdVars>>

AvNext == AvUpdate

SpecAvg == AvInit /\ [][AvNext]_vars

-----------------------------------------------------------------------------
(* SpecCM: one call of compute_metrics, one metric function at a time.     *)

KDomain == 0..MaxK

MetricChoices ==
  {STANDARD_METRICS, <<>>, <<"recall">>, <<"hit", "mrr">>, <<"precision", "map">>,
   <<"hit", "ndcg">>}

CMInit ==
  /\ cm_preds \in SeqsUpTo(Items, MaxPredLen)
  /\ cm_gold \in SeqsUpTo(Items, MaxGoldLen)
  /\ cm_k_values \in SeqsUpTo(KDomain, MaxKLen)
  /\ cm_metrics \in MetricChoices
  /\ cm_pc = "validate" /\ cm_i = 0 /\ cm_j = 0 /\ metric_vals = <<>>
  /\ n_evaluated = 0 /\ cm_error = ""
  /\ AvIdle /\ SDIdle

\* metric_vals[key] = val
DictSet(d, key, val) ==
  [x \in DOMAIN d \cup {key} |-> IF x = key THEN val ELSE d[x]]

\* Lines 85-94: the checks; line 96: metric_vals = {}.
CMValidate ==
  /\ cm_pc = "validate"
  /\ LET verr == Validate(cm_preds, cm_gold, cm_k_values, cm_metrics)
     IN  IF verr # ""
         THEN /\ cm_pc' = "raised" /\ cm_error' = verr
              /\ UNCHANGED <<cm_i, cm_j>>
         ELSE /\ cm_pc' = "eval" /\ cm_i' = 1 /\ cm_j' = 1
              /\ UNCHANGED cm_error
  /\ UNCHANGED <<cm_preds, cm_gold, cm_k_values, cm_metrics, metric_vals, n_evaluated>>
  /\ UNCHANGED <<avVars, sdVars>>

\* Line 100: one pass of the inner loop.
CMEvaluate ==
  /\ cm_pc = "eval"
  /\ cm_i <= Len(cm_metrics)
  /\ LET metric == cm_metrics[cm_i]
         k == cm_k_values[cm_j]
         r == metric_fn(metric, cm_gold, cm_preds, k)
     IN  /\ n_evaluated' = n_evaluated + 1
         /\ IF r.exc # ""
            THEN /\ cm_pc' = "raised" /\ cm_error' = r.exc
                 /\ UNCHANGED <<cm_i, cm_j, metric_vals>>
            ELSE /\ metric_vals' = DictSet(metric_vals, MetricKey(metric, k), r.val)
                 /\ IF cm_j < Len(cm_k_values)
                    THEN cm_j' = cm_j + 1 /\ cm_i' = cm_i
                    ELSE cm_j' = 1 /\ cm_i' = cm_i + 1
                 /\ UNCHANGED <<cm_pc, cm_error>>
  /\ UNCHANGED <<cm_preds, cm_gold, cm_k_values, cm_metrics>>
  /\ UNCHANGED <<avVars, sdVars>>

\* Line 101: return metric_vals.
CMReturn ==
  /\ cm_pc = "eval"
  /\ cm_i > Len(cm_metrics)
  /\ cm_pc' = "returned"
  /\ UNCHANGED <<cm_preds, cm_gold, cm_k_values, cm_metrics, cm_i, cm_j,
                 metric_vals, n_evaluated, cm_error>>
  /\ UNCHANGED <<avVars, sdVars>>

CMNext == CMValidate \/ CMEvaluate \/ CMReturn

SpecCM == CMInit /\ [][CMNext]_vars

\* The call taken step by step ends as compute_metrics, taken at once, says.
CMAgrees ==
  LET r == compute_metrics(cm_preds, cm_gold, cm_k_values, cm_metrics)
  IN  /\ cm_pc = "raised" => r.exc # ""
      /\ cm_pc = "returned" => r.exc = "" /\ r.vals = metric_vals

-----------------------------------------------------------------------------
(* eval.py: _PerTurnMetricSummary, compute_metrics_per_turn, score_dataset *)

max_turns == 1       \* the max_turns argument of score_dataset

_PerTurnMetricSummary ==
  [micro_average |-> _AveragedValue,
   macro_average |-> _AveragedValue,
   per_turn_average |-> [i \in 1..max_turns |-> _AveragedValue]]

\* Mutant: micro_average is updated under the if, with the positional bucket.
RECURSIVE UpdateLoop_micro_under_if(_, _, _)
UpdateLoop_micro_under_if(self, values, n) ==
  IF n = 0 THEN self
  ELSE LET s == UpdateLoop_micro_under_if(self, values, n - 1)
           value == values[n]
       IN  IF n - 1 < Len(s.per_turn_average)
           THEN [s EXCEPT
                   !.per_turn_average = [@ EXCEPT ![n] = _AveragedValue_update(@, value)],
                   !.micro_average = _AveragedValue_update(@, value)]
           ELSE s

\* The for-loop of update over the first n values (turn_idx = n - 1).
RECURSIVE UpdateLoop(_, _, _)
UpdateLoop(self, values, n) ==
  IF n = 0 THEN self
  ELSE LET s == UpdateLoop(self, values, n - 1)
           value == values[n]
       IN  [s EXCEPT
              !.per_turn_average =
                 IF n - 1 < Len(s.per_turn_average)
                 THEN [@ EXCEPT ![n] = _AveragedValue_update(@, value)]
                 ELSE @,
              !.micro_average = _AveragedValue_update(@, value)]

\* _PerTurnMetricSummary.update: the summary after the call, or the
\* exception of sum(values)/len(values) on an empty list.
_PerTurnMetricSummary_update(self, values) ==
  IF Len(values) = 0 THEN [exc |-> "ZeroDivisionError in update", val |-> self]
  ELSE LET mean == RDivInt(RSum(values), Len(values))
           s == [self EXCEPT !.macro_average = _AveragedValue_update(@, mean)]
       IN  [exc |-> "", val |-> UpdateLoop(s, values, Len(values))]

\* Mutant: the test is inverted, the seed tracks being the ones kept.
_filter_tracks_inverted(tracks, seeds) == SelectSeq(tracks, LAMBDA track : track \in seeds)

_filter_tracks(tracks, seeds) == SelectSeq(tracks, LAMBDA track : track \notin seeds)

\* Mutant: no turn is skipped.
SkipTurn_never(fg) == FALSE

\* if not filtered_gold: continue
SkipTurn(fg) == Len(fg) = 0

\* Mutant: prev_seed_tracks = set(turn_seed_tracks), the earlier batches lost.
SetUpdate_replace(prev, turn_seed_tracks) == Range(turn_seed_tracks)

\* prev_seed_tracks.update(turn_seed_tracks)
SetUpdate(prev, turn_seed_tracks) == prev \cup Range(turn_seed_tracks)

\* Mutant: a value equal to the last one stored under its key is not appended.
AppendAll_distinct(d, metrics) ==
  LET old(key) == IF key \in DOMAIN d THEN d[key] ELSE <<>>
  IN  [key \in DOMAIN d \cup DOMAIN metrics |->
         IF key \in DOMAIN metrics
              /\ (old(key) = <<>> \/ old(key)[Len(old(key))] # metrics[key])
         THEN Append(old(key), metrics[key])
         ELSE d[key]]

\* ret[metric_name].append(metric_vals) for every item of turn_metrics.
AppendAll(d, metrics) ==
  [key \in DOMAIN d \cup DOMAIN metrics |->
     IF key \in DOMAIN metrics
     THEN Append(IF key \in DOMAIN d THEN d[key] ELSE <<>>, metrics[key])
     ELSE d[key]]

\* Mutant: ret starts with an empty list under every metric key.
NewRet_every_key == [key \in CrossKeys(STANDARD_METRICS, k_values) |-> <<>>]

\* ret = collections.defaultdict(list)
NewRet == <<>>

\* agg_metrics[metric_name], created by the defaultdict when missing.
AggGet(agg, key) == IF key \in DOMAIN agg THEN agg[key] ELSE _PerTurnMetricSummary

\* The key a dict filled from compute_metrics' results iterates last: that
\* of the last metric and of the k whose first occurrence comes last.
LastKey(ks) ==
  LET first(k) == CHOOSE i \in 1..Len(ks) : ks[i] = k /\ \A j \in 1..(i - 1) : ks[j] # k
      k == CHOOSE x \in Range(ks) : \A y \in Range(ks) : first(y) <= first(x)
  IN  MetricKey(STANDARD_METRICS[Len(STANDARD_METRICS)], k)

\* The tracks of the seed batches of the first t turns.
SeedsUpTo(batches, t) == UNION {Range(batches[i]) : i \in 1..t}

RECURSIVE Without(_, _)
Without(s, S) ==
  IF s = <<>> THEN <<>>
  ELSE IF Head(s) \in S THEN Without(Tail(s), S)
  ELSE <<Head(s)>> \o Without(Tail(s), S)

\* The turns, among those zip has yielded, whose filtered gold is not empty.
Scoreable(g, batches) ==
  {t \in 1..Len(batches) : Without(g, SeedsUpTo(batches, t)) # <<>>}

SDInit(kChoices) ==
  /\ pc = "dialogs"
  /\ k_values \in kChoices
  /\ gold = <<>> /\ seed_tracks = <<>> /\ turn_preds = <<>> /\ prev_seed_tracks = {}
  /\ filtered_preds = <<>> /\ filtered_gold = <<>> /\ called = FALSE
  /\ turn_metrics = <<>> /\ ret = <<>> /\ agg_metrics = <<>> /\ dialog_log = <<>>
  /\ reported_metrics = <<>> /\ error = ""
  /\ AvIdle /\ CMIdle

\* Lines 209-215 and 167-169: the next dialog of preds is taken and
\* compute_metrics_per_turn entered.
StartDialog(maxDialogs, golds) ==
  /\ pc = "dialogs"
  /\ Len(dialog_log) < maxDialogs
  /\ \E g \in golds : gold' = g
  /\ pc' = "turns"
  /\ ret' = NewRet
  /\ prev_seed_tracks' = {}
  /\ UNCHANGED <<k_values, seed_tracks, turn_preds, filtered_preds, filtered_gold,
                 called, turn_metrics, agg_metrics, dialog_log, reported_metrics, error>>
  /\ UNCHANGED <<avVars, cmVars>>

\* Lines 170-181: one pass of the loop over zip(preds, seed_tracks).
ProcessTurn(predLists, seedLists) ==
  /\ pc = "turns"
  /\ Len(seed_tracks) < MaxDialogTurns
  /\ \E tp \in predLists, ts \in seedLists :
       LET seen == SetUpdate(prev_seed_tracks, ts)
           fp == _filter_tracks(tp, seen)
           fg == _filter_tracks(gold, seen)
           r == compute_metrics(fp, fg, k_values, STANDARD_METRICS)
       IN  /\ turn_preds' = tp
           /\ seed_tracks' = Append(seed_tracks, ts)
           /\ prev_seed_tracks' = seen
           /\ filtered_preds' = fp
           /\ filtered_gold' = fg
           /\ IF SkipTurn(fg)
              THEN /\ called' = FALSE
                   /\ turn_metrics' = Append(turn_metrics, [skipped |-> TRUE, vals |-> <<>>])
                   /\ UNCHANGED <<ret, pc, error, cm_preds, cm_gold, cm_k_values, cm_metrics>>
              ELSE /\ called' = TRUE
                   /\ cm_preds' = fp /\ cm_gold' = fg /\ cm_k_values' = k_values
                   /\ cm_metrics' = STANDARD_METRICS
                   /\ IF r.exc # ""
                      THEN /\ pc' = "error" /\ error' = r.exc
                           /\ UNCHANGED <<ret, turn_metrics>>
                      ELSE /\ ret' = AppendAll(ret, r.vals)
                           /\ turn_metrics' =
                                Append(turn_metrics, [skipped |-> FALSE, vals |-> r.vals])
                           /\ UNCHANGED <<pc, error>>
  /\ UNCHANGED <<k_values, gold, agg_metrics, dialog_log, reported_metrics>>
  /\ UNCHANGED <<avVars, cm_pc, cm_i, cm_j, metric_vals, n_evaluated, cm_error>>

\* Line 182: zip is exhausted and compute_metrics_per_turn returns ret.
ReturnMetrics ==
  /\ pc = "turns"
  /\ pc' = "aggregate"
  /\ UNCHANGED <<k_values, gold, seed_tracks, turn_preds, prev_seed_tracks,
                 filtered_preds, filtered_gold, called, turn_metrics, ret,
                 agg_metrics, dialog_log, reported_metrics, error>>
  /\ UNCHANGED <<avVars, cmVars>>

\* Lines 218-219: dialog_metrics is folded into agg_metrics, and the loop
\* goes on to the next dialog.
Aggregate ==
  /\ pc = "aggregate"
  /\ LET updated == [key \in DOMAIN ret |->
                       _PerTurnMetricSummary_update(AggGet(agg_metrics, key), ret[key])]
     IN  IF \E key \in DOMAIN ret : updated[key].exc # ""
         THEN /\ pc' = "error" /\ error' = "ZeroDivisionError in update"
              /\ UNCHANGED <<agg_metrics, dialog_log, gold, seed_tracks, turn_preds,
                             prev_seed_tracks, filtered_preds, filtered_gold, called,
                             turn_metrics, ret, cmVars>>
         ELSE /\ agg_metrics' =
                   [key \in DOMAIN agg_metrics \cup DOMAIN ret |->
                      IF key \in DOMAIN ret THEN updated[key].val ELSE agg_metrics[key]]
              /\ dialog_log' =
                   Append(dialog_log,
                          [dialog_metrics |-> ret,
                           scoreable |-> Cardinality(Scoreable(gold, seed_tracks))])
              /\ pc' = "dialogs"
              /\ gold' = <<>> /\ seed_tracks' = <<>> /\ turn_preds' = <<>>
              /\ prev_seed_tracks' = {} /\ filtered_preds' = <<>>
              /\ filtered_gold' = <<>> /\ called' = FALSE /\ turn_metrics' = <<>>
              /\ ret' = <<>>
              /\ cm_preds' = <<>> /\ cm_gold' = <<>> /\ cm_k_values' = <<>>
              /\ cm_metrics' = <<>>
              /\ UNCHANGED <<error, cm_pc, cm_i, cm_j, metric_vals, n_evaluated, cm_error>>
  /\ UNCHANGED <<k_values, reported_metrics>>
  /\ UNCHANGED avVars

\* Lines 222-235: preds is exhausted; the averages are laid out as lists,
\* "counts" being written once per metric.
Values(summ) ==
  <<summ.macro_average.value, summ.micro_average.value>>
    \o [i \in 1..Len(summ.per_turn_average) |-> summ.per_turn_average[i].value]

Counts(summ) ==
  <<summ.macro_average.count, summ.micro_average.count>>
    \o [i \in 1..Len(summ.per_turn_average) |-> summ.per_turn_average[i].count]

Report ==
  /\ pc = "dialogs"
  /\ reported_metrics' =
       IF DOMAIN agg_metrics = {} THEN <<>>
       ELSE [key \in DOMAIN agg_metrics \cup {"counts"} |->
               IF key = "counts" THEN Counts(agg_metrics[LastKey(k_values)])
               ELSE Values(agg_metrics[key])]
  /\ pc' = "done"
  /\ UNCHANGED <<k_values, gold, seed_tracks, turn_preds, prev_seed_tracks,
                 filtered_preds, filtered_gold, called, turn_metrics, ret,
                 agg_metrics, dialog_log, error>>
  /\ UNCHANGED <<avVars, cmVars>>

\* Spec: score_dataset over a dataset of several dialogs.
DataGold == {<<>>, <<"A">>, <<"A", "B">>}
DataPreds == {<<"A">>, <<"B">>, <<"B", "A">>}
DataSeeds == {<<>>, <<"A">>, <<"B">>}
DataK == {<<1>>, <<2, 1>>}

Init == SDInit(DataK)

Next ==
  \/ StartDialog(MaxDialogs, DataGold)
  \/ ProcessTurn(DataPreds, DataSeeds)
  \/ ReturnMetrics
  \/ Aggregate
  \/ Report

Spec == Init /\ [][Next]_vars

\* SpecDialog: score_dataset over one dialog: any gold list and any prediction
\* list over the items, duplicates included, and seed batches of up to one
\* track.
DialogGold == SeqsUpTo(Items, Cardinality(Items) - 1)
DialogPreds == SeqsUpTo(Items, Cardinality(Items))
DialogSeeds == {<<>>} \cup {<<x>> : x \in Items}
DialogK == {<<>>, <<0>>, <<1>>, <<2>>, <<2, 1>>}

DInit == SDInit(DialogK)

DNext ==
  \/ StartDialog(1, DialogGold)
  \/ ProcessTurn(DialogPreds, DialogSeeds)
  \/ ReturnMetrics
  \/ Aggregate
  \/ Report

SpecDialog == DInit /\ [][DNext]_vars

-----------------------------------------------------------------------------
(* What the properties below are stated with.                              *)

HasDuplicate(s) == \E i, j \in 1..Len(s) : i < j /\ s[i] = s[j]

InUnitRange(v) == RLe(RInt(0), v) /\ RLe(v, RInt(1))

RECURSIVE SumInts(_)
SumInts(s) == IF s = <<>> THEN 0 ELSE s[1] + SumInts(Tail(s))

\* The number of observations a dict of per-turn lists holds for a key.
Observations(d, key) == IF key \in DOMAIN d THEN Len(d[key]) ELSE 0

\* The seen set and the filtered gold of the t-th turn zip yielded.
SeenAt(t) == SeedsUpTo(seed_tracks, t)
FilteredGoldAt(t) == Without(gold, SeenAt(t))

DialogMetrics(d) == dialog_log[d].dialog_metrics
Mean(values) == RDivInt(RSum(values), Len(values))

RECURSIVE SumOfMeans(_, _)
SumOfMeans(key, n) ==
  IF n = 0 THEN RInt(0)
  ELSE IF key \in DOMAIN DialogMetrics(n)
       THEN RAdd(SumOfMeans(key, n - 1), Mean(DialogMetrics(n)[key]))
       ELSE SumOfMeans(key, n - 1)

RECURSIVE SumObservations(_, _)
SumObservations(key, n) ==
  IF n = 0 THEN 0 ELSE SumObservations(key, n - 1) + Observations(DialogMetrics(n), key)

RECURSIVE SumScoreable(_)
SumScoreable(n) == IF n = 0 THEN 0 ELSE SumScoreable(n - 1) + dialog_log[n].scoreable

-----------------------------------------------------------------------------
(* C1 (SpecDialog).  After every turn compute_metrics_per_turn processes,  *)
(* prev_seed_tracks is the union of the seed batches of turns 0..t, and a  *)
(* turn that calls compute_metrics passes it the turn's predictions        *)
(* without the seen items, in their order, and gold without the seen items.*)
C1_SeenIsUnionAndArgsFiltered ==
  pc \in {"turns", "aggregate", "error"} =>
    /\ prev_seed_tracks = SeenAt(Len(seed_tracks))
    /\ \A t \in 1..Len(seed_tracks) : \A u \in 1..t : SeenAt(u) \subseteq SeenAt(t)
    /\ called =>
         /\ cm_preds = Without(turn_preds, SeenAt(Len(seed_tracks)))
         /\ cm_gold = Without(gold, SeenAt(Len(seed_tracks)))
         /\ cm_k_values = k_values

\* A second turn whose predictions lose a seen item from between two kept ones.
C1_Witness ==
  /\ pc = "turns" /\ called /\ Len(seed_tracks) = 2
  /\ seed_tracks[1] # <<>>
  /\ Len(turn_preds) = 3 /\ Len(cm_preds) = 2
  /\ turn_preds[2] \in prev_seed_tracks
  /\ Len(cm_gold) < Len(gold)

-----------------------------------------------------------------------------
(* C2 (Spec), as claimed.  Every turn zip has yielded whose filtered gold  *)
(* is not empty has added one observation to every metric key, and every   *)
(* other turn none.                                                        *)
C2_Original ==
  pc \in {"turns", "aggregate", "error"} =>
    \A key \in CrossKeys(STANDARD_METRICS, k_values) :
      Observations(ret, key) = Cardinality(Scoreable(gold, seed_tracks))

(* C2 (Spec), amended.  The same while compute_metrics accepts the turns'  *)
(* filtered lists; a run aborts only on a turn whose filtered gold is not  *)
(* empty, which then adds nothing; and the macro, micro and positional     *)
(* counts of every key count the turns with non-empty filtered gold only.  *)
C2_OneObservationPerScoreableTurn ==
  /\ pc \in {"turns", "aggregate"} =>
       \A key \in CrossKeys(STANDARD_METRICS, k_values) :
         Observations(ret, key) = Cardinality(Scoreable(gold, seed_tracks))
  /\ pc = "error" =>
       /\ called /\ FilteredGoldAt(Len(seed_tracks)) # <<>>
       /\ \A key \in CrossKeys(STANDARD_METRICS, k_values) :
            Observations(ret, key) = Cardinality(Scoreable(gold, seed_tracks)) - 1
  /\ \A key \in CrossKeys(STANDARD_METRICS, k_values) :
       LET summ == AggGet(agg_metrics, key)
           n == Len(dialog_log)
       IN  /\ summ.micro_average.count = SumScoreable(n)
           /\ summ.macro_average.count =
                Cardinality({d \in 1..n : dialog_log[d].scoreable >= 1})
           /\ \A i \in 1..max_turns :
                summ.per_turn_average[i].count =
                  Cardinality({d \in 1..n : dialog_log[d].scoreable >= i})

\* In the second dialog of a dataset, a scored turn and then a skipped one.
C2_Witness ==
  /\ pc = "turns" /\ Len(dialog_log) = 1 /\ dialog_log[1].scoreable = 2
  /\ Len(turn_metrics) = 2
  /\ ~turn_metrics[1].skipped /\ turn_metrics[2].skipped
  /\ \A key \in CrossKeys(STANDARD_METRICS, k_values) : Observations(ret, key) = 1

-----------------------------------------------------------------------------
(* C3 (SpecDialog), as claimed.  compute_metrics_per_turn returns metric   *)
(* values only if neither gold nor the prediction list of a turn it took   *)
(* holds a duplicate (stated of the last turn taken).                      *)
C3_Original ==
  (pc = "aggregate" /\ Len(seed_tracks) >= 1) =>
    ~(HasDuplicate(gold) \/ HasDuplicate(turn_preds))

(* C3 (SpecDialog), amended.  A turn whose filtered gold is not empty and  *)
(* whose filtered predictions or filtered gold hold a duplicate aborts the *)
(* scoring with a ValueError.                                              *)
C3_DuplicatesLeftAfterFilteringRaise ==
  (called /\ (HasDuplicate(cm_preds) \/ HasDuplicate(cm_gold))) =>
    /\ pc = "error"
    /\ error \in {"ValueError: Predictions should be unique",
                  "ValueError: Gold item list should be unique"}

\* The second turn of a dialog is rejected for a duplicate prediction.
C3_Witness ==
  /\ pc = "error" /\ called /\ Len(seed_tracks) = 2
  /\ HasDuplicate(cm_preds) /\ ~HasDuplicate(cm_gold)
  /\ error = "ValueError: Predictions should be unique"

-----------------------------------------------------------------------------
(* C4 (SpecCM), as claimed.  compute_metrics ends raising a ValueError     *)
(* with no metric function called if preds or gold holds a duplicate, a    *)
(* metric is unregistered or max(k_values) > len(preds), and ends          *)
(* returning a dict with the keys of metrics x k_values in every other     *)
(* case (stated of the calls with a non-empty k_values, max() being        *)
(* undefined on an empty one).                                             *)
C4_Rejected ==
  \/ HasDuplicate(cm_preds)
  \/ HasDuplicate(cm_gold)
  \/ \E i \in 1..Len(cm_metrics) : cm_metrics[i] \notin _STANDARD_METRIC_MAP
  \/ \E j \in 1..Len(cm_k_values) : cm_k_values[j] > Len(cm_preds)

C4_RaisedBeforeAnyMetric ==
  /\ cm_pc = "raised"
  /\ SubSeq(cm_error, 1, 10) = "ValueError"
  /\ n_evaluated = 0
  /\ metric_vals = <<>>

C4_ReturnedCrossProduct ==
  /\ cm_pc = "returned"
  /\ DOMAIN metric_vals = CrossKeys(cm_metrics, cm_k_values)

C4_Original ==
  (cm_pc \in {"raised", "returned"} /\ cm_k_values # <<>>) =>
    IF C4_Rejected THEN C4_RaisedBeforeAnyMetric ELSE C4_ReturnedCrossProduct

(* C4 (SpecCM), amended.  The same, an empty k_values being rejected in    *)
(* the same way when no earlier check fails, and the dict being returned   *)
(* in every other case in which every k is at least 1 and gold is not      *)
(* empty.                                                                  *)
C4_ValidatesThenReturnsCrossProduct ==
  cm_pc \in {"raised", "returned"} =>
    /\ (C4_Rejected \/ cm_k_values = <<>>) => C4_RaisedBeforeAnyMetric
    /\ ( /\ ~C4_Rejected
         /\ cm_k_values # <<>>
         /\ \A j \in 1..Len(cm_k_values) : cm_k_values[j] >= 1
         /\ cm_gold # <<>> ) => C4_ReturnedCrossProduct

\* preds = [X, X, Y] is rejected before any metric is computed.
C4_Witness ==
  /\ cm_pc = "raised" /\ cm_preds = <<"A", "A", "B">> /\ n_evaluated = 0
  /\ cm_metrics = STANDARD_METRICS /\ cm_k_values = <<1, 2>> /\ cm_gold = <<"A">>

-----------------------------------------------------------------------------
(* C7 (SpecAvg).  After n >= 1 updates with v1..vn an _AveragedValue has   *)
(* count n and value (v1 + ... + vn) / n; [2, 4, 6] gives 4 and 3.         *)
C7_RunningMean ==
  /\ fed # <<>> => /\ av.count = Len(fed)
                   /\ av.value = Rat(SumInts(fed), Len(fed))
  /\ fed = <<2, 4, 6>> => av = [value |-> RInt(4), count |-> 3]

C7_Witness == fed = <<2, 4, 6>> /\ av.count = 3 /\ av.value = RInt(4)

-----------------------------------------------------------------------------
(* C8 (SpecCM).  Once compute_metrics has accepted its arguments, gold     *)
(* being non-empty and every k at least 1, every value it computes for     *)
(* hit, mrr, precision, recall and map lies between 0 and 1.               *)
C8_ValuesInUnitRange ==
  ( /\ cm_pc \in {"eval", "returned"}
    /\ cm_gold # <<>>
    /\ \A j \in 1..Len(cm_k_values) : cm_k_values[j] >= 1 ) =>
      \A key \in DOMAIN metric_vals : InUnitRange(metric_vals[key])

\* All five metrics returned at two cutoffs, some value strictly inside.
C8_Witness ==
  /\ cm_pc = "returned" /\ cm_gold # <<>> /\ cm_metrics = STANDARD_METRICS
  /\ Cardinality(DOMAIN metric_vals) = 10
  /\ metric_vals["map@2"] = Rat(1, 2)
  /\ metric_vals["recall@2"] = Rat(1, 2)

-----------------------------------------------------------------------------
(* C5 (Spec).  For every metric, positional bucket i (of max_turns) counts *)
(* the dialogs with an observation at position i; an observation at a      *)
(* position >= max_turns updates no bucket, but counts in micro and in     *)
(* the dialog mean fed to macro.                                           *)
DialogsWithPosition(key, i) ==
  {d \in 1..Len(dialog_log) : Observations(DialogMetrics(d), key) >= i}

C5_PositionalBucketsAndOverflow ==
  \A key \in DOMAIN agg_metrics :
    LET summ == agg_metrics[key]
        n == Len(dialog_log)
    IN  /\ Len(summ.per_turn_average) = max_turns
        /\ \A i \in 1..max_turns :
             summ.per_turn_average[i].count = Cardinality(DialogsWithPosition(key, i))
        /\ summ.micro_average.count = SumObservations(key, n)
        /\ summ.macro_average.value =
             RDivInt(SumOfMeans(key, n), Cardinality(DialogsWithPosition(key, 1)))

\* Two dialogs aggregated, one with an observation beyond the last bucket.
C5_Witness ==
  /\ pc = "dialogs" /\ Len(dialog_log) = 2
  /\ \E key \in DOMAIN agg_metrics :
       /\ Observations(DialogMetrics(1), key) > max_turns
       /\ Observations(DialogMetrics(2), key) = 1
       /\ DialogMetrics(1)[key][max_turns + 1] # DialogMetrics(1)[key][1]
       /\ agg_metrics[key].micro_average.count > max_turns + 1

-----------------------------------------------------------------------------
(* C6 (Spec).  The macro accumulator of a metric is updated once per       *)
(* dialog with an observation for it, with the mean of the dialog's        *)
(* per-turn values; a dialog without scoreable turns has no key, so        *)
(* update is never called with an empty list, nothing divides by zero and  *)
(* the aggregates are those of the other dialogs.                          *)
C6_MacroOncePerScoredDialog ==
  /\ error # "ZeroDivisionError in update"
  /\ \A key \in DOMAIN ret : Len(ret[key]) >= 1
  /\ \A d \in 1..Len(dialog_log) :
       /\ \A key \in DOMAIN DialogMetrics(d) : Len(DialogMetrics(d)[key]) >= 1
       /\ dialog_log[d].scoreable = 0 => DOMAIN DialogMetrics(d) = {}
  /\ \A key \in DOMAIN agg_metrics :
       LET with == DialogsWithPosition(key, 1)
       IN  /\ agg_metrics[key].macro_average.count = Cardinality(with)
           /\ with # {}
           /\ agg_metrics[key].macro_average.value =
                RDivInt(SumOfMeans(key, Len(dialog_log)), Cardinality(with))
  /\ (\A d \in 1..Len(dialog_log) : dialog_log[d].scoreable = 0) => agg_metrics = <<>>

\* A dialog without scoreable turns, aggregated after one that scored.
C6_Witness ==
  /\ pc = "dialogs" /\ Len(dialog_log) = 2
  /\ dialog_log[1].scoreable >= 1
  /\ dialog_log[2].scoreable = 0 /\ DialogMetrics(2) = <<>>
  /\ \E key \in DOMAIN agg_metrics : agg_metrics[key].macro_average.count = 1

-----------------------------------------------------------------------------
(* C9 (Spec).  Every metric key's accumulators have the same counts, so    *)
(* the "counts" entry score_dataset returns is the count vector of every   *)
(* metric it reports, and has the length max_turns + 2 of their vectors.   *)
C9_OneCountVector ==
  /\ \A k1, k2 \in DOMAIN agg_metrics : Counts(agg_metrics[k1]) = Counts(agg_metrics[k2])
  /\ pc = "done" =>
       /\ DOMAIN reported_metrics \ {"counts"} = DOMAIN agg_metrics
       /\ DOMAIN agg_metrics # {} => "counts" \in DOMAIN reported_metrics
       /\ \A key \in DOMAIN agg_metrics :
            /\ reported_metrics["counts"] = Counts(agg_metrics[key])
            /\ Len(reported_metrics[key]) = max_turns + 2
            /\ Len(reported_metrics["counts"]) = max_turns + 2

\* A report over two scored dialogs of different lengths and ten metric keys.
C9_Witness ==
  /\ pc = "done" /\ Len(dialog_log) = 2
  /\ Cardinality(DOMAIN reported_metrics) = 11
  /\ reported_metrics["counts"][1] = 2
  /\ reported_metrics["counts"][2] = 3

-----------------------------------------------------------------------------
(* C10 (SpecDialog).  Once a turn of a dialog is skipped, every later turn *)
(* is; so the i-th entry of each metric's per-turn list is the value       *)
(* computed for turn i, and so is what positional bucket i is updated with.*)
C10_SkippedTurnsFormSuffix ==
  /\ \A i, j \in 1..Len(turn_metrics) :
       (i < j /\ turn_metrics[i].skipped) => turn_metrics[j].skipped
  /\ \A key \in DOMAIN ret : \A i \in 1..Len(ret[key]) :
       /\ i <= Len(turn_metrics)
       /\ ~turn_metrics[i].skipped
       /\ ret[key][i] = turn_metrics[i].vals[key]
  /\ \A d \in 1..Len(dialog_log) : \A key \in DOMAIN agg_metrics :
       \A i \in 1..max_turns :
         IF i <= Observations(DialogMetrics(d), key)
         THEN /\ agg_metrics[key].per_turn_average[i].count = 1
              /\ agg_metrics[key].per_turn_average[i].value = DialogMetrics(d)[key][i]
         ELSE agg_metrics[key].per_turn_average[i].count = 0

\* A skipped turn followed by another turn, gold not being empty.
C10_Witness ==
  /\ pc = "aggregate" /\ gold # <<>> /\ Len(turn_metrics) = 2
  /\ turn_metrics[1].skipped /\ turn_metrics[2].skipped
  /\ seed_tracks[2] = <<>>

=============================================================================
